---- MODULE Spec2Model ----
(***************************************************************************)
(* The 20-level runner of src/src/components/GameCanvas.tsx (lines 1-791): *)
(* the React state (gameState, score, lives, level, bossDefeated), the     *)
(* mutable bag gameStateRef.current, and the two callbacks the component   *)
(* schedules (the animation frame and the level timer).  The jump key is   *)
(* an input of each frame.                                                 *)
(*                                                                         *)
(* Lengths and speeds are fixed-point numbers in units of 1/U pixel, so    *)
(* that 0.6, 3.2 or 1.65 are integers; the component computes with IEEE    *)
(* doubles, the model with exact decimals.                                 *)
(*                                                                         *)
(* Two more components of the repository follow the runner, each with a    *)
(* specification of its own: the 4-level game of src/unnamed/part_000      *)
(* (EscapeSpec) and the shell of src/src/App.tsx (AppSpec).                *)
(***************************************************************************)
EXTENDS Integers, Sequences, FiniteSets, TLC

VARIABLES gameState, score, lives, level, bossDefeated,
          pencil, camera, worldSpeed, obstacles, enemies, bosses, projectiles,
          nextObstacle, nextEnemy, bossSpawned, levelDistance,
          rafPending, loopLevel, timerPending, effectsPending,
          staleFrames, horizon, stomped,
          escape, app

vars == <<gameState, score, lives, level, bossDefeated,
          pencil, camera, worldSpeed, obstacles, enemies, bosses, projectiles,
          nextObstacle, nextEnemy, bossSpawned, levelDistance,
          rafPending, loopLevel, timerPending, effectsPending,
          staleFrames, horizon, stomped, escape, app>>

\* the state of the two other components of the repository: the 4-level
\* game of src/unnamed/part_000 and the shell of src/src/App.tsx
others == <<escape, app>>

reactVars == <<gameState, score, lives, level, bossDefeated>>
refVars == <<pencil, camera, worldSpeed, obstacles, enemies, bosses, projectiles,
             nextObstacle, nextEnemy, bossSpawned, levelDistance>>

(***************************************************************************)
(* Bounds of the exploration.                                              *)
(***************************************************************************)
\* frames that may run between a change of gameState and the flush of the
\* passive effects that cancels the pending animation frame
MaxStaleFrames == 2
\* frames explored from a state of ArenaInit
ArenaFrames == 6

(***************************************************************************)
(* Program constants.                                                      *)
(***************************************************************************)
U == 100
PencilX == 100 * U
PencilWidth == 40 * U
PencilHeight == 8 * U
StartY == 300 * U
Floor == 392 * U
Gravity == 60
JumpImpulse == 0 - 12 * U
Bounce == 0 - 8 * U
InvulnerableTicks == 120
StompDamage == 10
StartLives == 3
StartSpeed == 3 * U
MaxSpeed == 8 * U
CanvasWidth == 800 * U
Margin == 100 * U
LevelLength == 2000 * U
GroundY == 400 * U
BossStartX == 700 * U
Cooldown == 1000
LevelBonus == 1000
BossBonus == 5000
NumLevels == 20

Min(a, b) == IF a < b THEN a ELSE b

\* Math.max(0, a)
Max0(a) == IF a > 0 THEN a ELSE 0

(***************************************************************************)
(* The level table.                                                        *)
(***************************************************************************)
BossLevels == {5, 10, 15, 20}

LevelType(l) == IF l \in BossLevels THEN "boss" ELSE "normal"

\* difficulty times 10
Difficulty10(l) ==
  CASE l = 1 -> 10 [] l = 2 -> 12 [] l = 3 -> 14 [] l = 4 -> 16 [] l = 5 -> 20
    [] l = 6 -> 18 [] l = 7 -> 20 [] l = 8 -> 22 [] l = 9 -> 24 [] l = 10 -> 25
    [] l = 11 -> 26 [] l = 12 -> 28 [] l = 13 -> 30 [] l = 14 -> 32 [] l = 15 -> 35
    [] l = 16 -> 36 [] l = 17 -> 38 [] l = 18 -> 40 [] l = 19 -> 42 [] l = 20 -> 50

ObstacleFreq(l) ==
  CASE l = 1 -> 120 [] l = 2 -> 100 [] l = 3 -> 80 [] l = 4 -> 70
    [] l = 6 -> 60 [] l = 7 -> 55 [] l = 8 -> 50 [] l = 9 -> 45
    [] l = 11 -> 40 [] l = 12 -> 38 [] l = 13 -> 35 [] l = 14 -> 32
    [] l = 16 -> 30 [] l = 17 -> 28 [] l = 18 -> 25 [] l = 19 -> 22

EnemyFreq(l) ==
  CASE l = 1 -> 200 [] l = 2 -> 180 [] l = 3 -> 160 [] l = 4 -> 140
    [] l = 6 -> 120 [] l = 7 -> 110 [] l = 8 -> 100 [] l = 9 -> 90
    [] l = 11 -> 80 [] l = 12 -> 75 [] l = 13 -> 70 [] l = 14 -> 65
    [] l = 16 -> 60 [] l = 17 -> 55 [] l = 18 -> 50 [] l = 19 -> 45

BossOf(l) ==
  CASE l = 5 -> "teacher" [] l = 10 -> "principal"
    [] l = 15 -> "janitor" [] l = 20 -> "superintendent"

ObstaclePeriodUnscaled(l) == ObstacleFreq(l) * U

\* obstacleFreq / difficulty and enemyFreq / difficulty, rounded down to 1/U
\* pixel; levelDistance is a whole number of 1/U pixels, so the comparison
\* levelDistance > nextObstacle is not changed by the rounding
ObstaclePeriod(l) == (ObstacleFreq(l) * U * 10) \div Difficulty10(l)
EnemyPeriod(l) == (EnemyFreq(l) * U * 10) \div Difficulty10(l)

(***************************************************************************)
(* Entity constructors.                                                    *)
(***************************************************************************)
ObstacleTypes == {"scissors", "stapler", "eraser", "ruler", "sharpener", "glue", "calculator"}
EnemyTypes == {"paperball", "flyingEraser", "bouncingRuler"}
Patterns == {"homework", "detention", "mop", "policy"}

ObstacleWidth(t) ==
  CASE t = "scissors" -> 30 * U [] t = "stapler" -> 35 * U [] t = "eraser" -> 25 * U
    [] t = "ruler" -> 40 * U [] t = "sharpener" -> 20 * U [] t = "glue" -> 15 * U
    [] t = "calculator" -> 45 * U

ObstacleHeight(t) ==
  CASE t = "scissors" -> 25 * U [] t = "stapler" -> 20 * U [] t = "eraser" -> 15 * U
    [] t = "ruler" -> 8 * U [] t = "sharpener" -> 20 * U [] t = "glue" -> 30 * U
    [] t = "calculator" -> 35 * U

createObstacleAtCamera(x, t) ==
  [x |-> x - CanvasWidth, y |-> GroundY - ObstacleHeight(t),
   width |-> ObstacleWidth(t), height |-> ObstacleHeight(t), type |-> t]

createObstacle(x, t) ==
  [x |-> x, y |-> GroundY - ObstacleHeight(t),
   width |-> ObstacleWidth(t), height |-> ObstacleHeight(t), type |-> t]

\* the level is the one the callback closed over; speed * (1 + level * 0.1)
createEnemy(x, t, l) ==
  CASE t = "paperball" ->
         [x |-> x, y |-> 350 * U, width |-> 15 * U, height |-> 15 * U, type |-> t,
          speed |-> (2 * U * (10 + l)) \div 10, direction |-> 0 - 1]
    [] t = "flyingEraser" ->
         [x |-> x, y |-> 250 * U, width |-> 20 * U, height |-> 12 * U, type |-> t,
          speed |-> (150 * (10 + l)) \div 10, direction |-> 0 - 1]
    [] t = "bouncingRuler" ->
         [x |-> x, y |-> 300 * U, width |-> 30 * U, height |-> 6 * U, type |-> t,
          speed |-> (1 * U * (10 + l)) \div 10, direction |-> 0 - 1]

\* lastShot = 0 against a clock of Date.now(): the cooldown has long elapsed.
\* sinceShot is now - lastShot, saturated just above the cooldown.
createBoss(b) ==
  CASE b = "teacher" ->
         [x |-> BossStartX, y |-> 200 * U, width |-> 80 * U, height |-> 100 * U,
          health |-> 50, maxHealth |-> 50, pattern |-> "homework", sinceShot |-> Cooldown + 1]
    [] b = "principal" ->
         [x |-> BossStartX, y |-> 180 * U, width |-> 90 * U, height |-> 110 * U,
          health |-> 75, maxHealth |-> 75, pattern |-> "detention", sinceShot |-> Cooldown + 1]
    [] b = "janitor" ->
         [x |-> BossStartX, y |-> 190 * U, width |-> 85 * U, height |-> 105 * U,
          health |-> 100, maxHealth |-> 100, pattern |-> "mop", sinceShot |-> Cooldown + 1]
    [] b = "superintendent" ->
         [x |-> BossStartX, y |-> 160 * U, width |-> 100 * U, height |-> 120 * U,
          health |-> 150, maxHealth |-> 150, pattern |-> "policy", sinceShot |-> Cooldown + 1]

(***************************************************************************)
(* createProjectile: a shot of fixed speed along the unit vector from the  *)
(* firing point to the target.  Math.sqrt is taken to 1/U pixel below 300  *)
(* pixels and to 1/10 pixel above; the quotient is rounded down.  A        *)
(* zero-length aim vector gives 0 / 0 = NaN in both speed components.      *)
(***************************************************************************)
RECURSIVE IsqrtIn(_, _, _)
IsqrtIn(n, lo, hi) ==
  IF lo >= hi THEN lo
  ELSE LET mid == (lo + hi + 1) \div 2
       IN  IF mid * mid <= n THEN IsqrtIn(n, mid, hi) ELSE IsqrtIn(n, lo, mid - 1)

Isqrt(n) == IsqrtIn(n, 0, 46340)

Abs(a) == IF a < 0 THEN 0 - a ELSE a

\* Math.sqrt(dx * dx + dy * dy), in 1/U pixel
Distance(dx, dy) ==
  IF Abs(dx) < 300 * U /\ Abs(dy) < 300 * U
    THEN Isqrt(dx * dx + dy * dy)
    ELSE 10 * Isqrt((dx \div 10) * (dx \div 10) + (dy \div 10) * (dy \div 10))

ProjectileSpeed(t) ==
  IF t = "homework" THEN 4 * U ELSE IF t = "detention" THEN 5 * U
  ELSE IF t = "mop" THEN 3 * U ELSE 6 * U

ProjectileWidth(t) ==
  CASE t = "homework" -> 20 * U [] t = "detention" -> 25 * U
    [] t = "mop" -> 30 * U [] t = "policy" -> 35 * U

ProjectileHeight(t) ==
  CASE t = "homework" -> 15 * U [] t = "detention" -> 20 * U
    [] t = "mop" -> 8 * U [] t = "policy" -> 25 * U

createProjectile(x, y, targetX, targetY, t) ==
  LET dx == targetX - x
      dy == targetY - y
      distance == Distance(dx, dy)
      isNaN == (distance = 0)
  IN  [x |-> x, y |-> y, width |-> ProjectileWidth(t), height |-> ProjectileHeight(t),
       speedX |-> IF isNaN THEN 0 ELSE (dx * ProjectileSpeed(t)) \div distance,
       speedY |-> IF isNaN THEN 0 ELSE (dy * ProjectileSpeed(t)) \div distance,
       nan |-> isNaN, type |-> t]

(***************************************************************************)
(* checkCollision of the pencil rectangle (x = 100, width 40, height 8, at *)
(* height y) with an entity.                                               *)
(***************************************************************************)
checkCollision(y, e) ==
  /\ PencilX < e.x + e.width
  /\ PencilX + PencilWidth > e.x
  /\ y < e.y + e.height
  /\ y + PencilHeight > e.y

(***************************************************************************)
(* The pencil physics of one frame: jump, gravity, floor, ceiling, and the *)
(* invulnerability countdown.                                              *)
(***************************************************************************)
JumpedInMidAir(p, up) ==
  IF up
    THEN [p EXCEPT !.velocityY = JumpImpulse, !.onGround = FALSE]
    ELSE p

JumpedDownward(p, up) ==
  IF up /\ p.onGround
    THEN [p EXCEPT !.velocityY = 0 - JumpImpulse, !.onGround = FALSE]
    ELSE p

\* keys.current.up && pencil.onGround
Jumped(p, up) ==
  IF up /\ p.onGround
    THEN [p EXCEPT !.velocityY = JumpImpulse, !.onGround = FALSE]
    ELSE p

Fallen(p) == [p EXCEPT !.velocityY = @ + Gravity, !.y = @ + p.velocityY + Gravity]

Grounded(p) ==
  IF p.y >= Floor
    THEN [p EXCEPT !.y = Floor, !.velocityY = 0, !.onGround = TRUE]
    ELSE p

CeiledKeepsVelocity(p) == IF p.y < 0 THEN [p EXCEPT !.y = 0] ELSE p

\* pencil.y < 0
Ceiled(p) == IF p.y < 0 THEN [p EXCEPT !.y = 0, !.velocityY = 0] ELSE p

Cooled(p) == IF p.invulnerable > 0 THEN [p EXCEPT !.invulnerable = @ - 1] ELSE p

PencilStep(p, up) == Cooled(Ceiled(Grounded(Fallen(Jumped(p, up)))))

(***************************************************************************)
(* What the entity passes of one frame carry along: the pencil fields they *)
(* write, the queued React updates (lives lost, score bonus, bosses        *)
(* defeated), the last direct setGameState of the frame, whether a lives   *)
(* updater asks for gameOver, and the projectiles fired.                   *)
(***************************************************************************)
\* variants of the collision rules with a slip in them
LoseLifeTwice(c) ==
  [c EXCEPT !.lives = @ - 2,
            !.over = c.over \/ (c.lives - 2 <= 0),
            !.invulnerable = InvulnerableTicks]

LoseLifeNoWindow(c) ==
  [c EXCEPT !.lives = @ - 1,
            !.over = c.over \/ (c.lives - 1 <= 0)]

VulnerableAlways(c) == TRUE

\* setLives(prev => prev - 1) with setGameState('gameOver') when the new
\* value is <= 0, then invulnerable = 120
LoseLife(c) ==
  [c EXCEPT !.lives = @ - 1,
            !.over = c.over \/ (c.lives - 1 <= 0),
            !.invulnerable = InvulnerableTicks]

\* may this overlap cost a life?
Vulnerable(c) == (c.invulnerable = 0)

AfterHitKept(out, e, kind) == Append(out, e)

\* what the filter callback returns after a hit that cost a life: true for
\* an obstacle (it stays in the list), false for an enemy or a projectile
AfterHit(out, e, kind) == IF kind = "obstacle" THEN Append(out, e) ELSE out

\* state.obstacles.filter: advance, drop when behind the camera, collide
RECURSIVE ObstaclePass(_, _, _, _, _)
ObstaclePass(list, i, c, y, out) ==
  IF i > Len(list) THEN [list |-> out, c |-> c]
  ELSE LET o == [list[i] EXCEPT !.x = @ - worldSpeed]
       IN  IF o.x + o.width < (camera + worldSpeed) - Margin
             THEN ObstaclePass(list, i + 1, c, y, out)
           ELSE IF checkCollision(y, o) /\ Vulnerable(c)
             THEN ObstaclePass(list, i + 1, LoseLife(c), y, AfterHit(out, o, "obstacle"))
           ELSE ObstaclePass(list, i + 1, c, y, Append(out, o))

\* state.enemies.filter; wave is the sign of Math.sin(Date.now() * 0.01)
RECURSIVE EnemyPass(_, _, _, _, _, _)
EnemyPass(list, i, c, y, wave, out) ==
  IF i > Len(list) THEN [list |-> out, c |-> c]
  ELSE LET m == [list[i] EXCEPT !.x = @ - worldSpeed + list[i].direction * list[i].speed]
           e == IF m.type = "bouncingRuler" THEN [m EXCEPT !.y = @ + wave * 2 * U] ELSE m
       IN  IF e.x + e.width < (camera + worldSpeed) - Margin
             THEN EnemyPass(list, i + 1, c, y, wave, out)
           ELSE IF checkCollision(y, e) /\ Vulnerable(c)
             THEN EnemyPass(list, i + 1, LoseLife(c), y, wave, AfterHit(out, e, "enemy"))
           ELSE EnemyPass(list, i + 1, c, y, wave, Append(out, e))

BossEscapedNever(b) == FALSE

\* the boss has crossed the trailing edge of the camera
BossEscaped(b) == b.x + b.width < (camera + worldSpeed) - Margin

CooldownOverAtLimit(b, dt) == b.sinceShot + dt >= Cooldown

\* now - boss.lastShot > 1000
CooldownOver(b, dt) == b.sinceShot + dt > Cooldown

IsStompAnyContact(c, y, b) == checkCollision(y, b) /\ Vulnerable(c)

LevelFailedSilently(c) == c

\* setGameState('gameOver') for a boss that left the screen
LevelFailed(c) == [c EXCEPT !.set = "gameOver"]

\* the stomp: overlap while descending and vulnerable
IsStomp(c, y, b) == checkCollision(y, b) /\ c.velocityY > 0 /\ Vulnerable(c)

\* boss.health <= 0 after a stomp
IsDefeated(b) == b.health <= 0

BossMoved(b, wave) ==
  IF b.pattern = "homework" THEN [b EXCEPT !.y = @ + wave * 2 * U]
  ELSE IF b.pattern = "detention" THEN [b EXCEPT !.y = @ + wave * 3 * U]
  ELSE IF b.pattern = "mop" THEN [b EXCEPT !.x = @ + wave * 1 * U]
  ELSE b

\* state.bosses.filter: advance, shoot, move, stomp, defeat, escape
RECURSIVE BossPass(_, _, _, _, _, _, _)
BossPass(list, i, c, y, wave, dt, out) ==
  IF i > Len(list) THEN [list |-> out, c |-> c]
  ELSE LET a == [list[i] EXCEPT !.x = @ - worldSpeed \div 2]
           fires == CooldownOver(a, dt)
           shot == createProjectile(a.x, a.y + a.height \div 2, PencilX, y, a.pattern)
           c1 == IF fires THEN [c EXCEPT !.shots = Append(@, shot)] ELSE c
           s == [a EXCEPT !.sinceShot = IF fires THEN 0 ELSE Min(@ + dt, Cooldown + 1)]
           m == BossMoved(s, wave)
           stomp == IsStomp(c1, y, m)
           h == IF stomp THEN [m EXCEPT !.health = @ - StompDamage] ELSE m
           c2 == IF stomp THEN [c1 EXCEPT !.velocityY = Bounce, !.stomped = Append(@, h.health)]
                 ELSE c1
       IN  IF stomp /\ IsDefeated(h)
             THEN BossPass(list, i + 1,
                           [c2 EXCEPT !.defeated = @ + 1, !.bonus = @ + BossBonus,
                                      !.set = "levelComplete"],
                           y, wave, dt, out)
           ELSE IF BossEscaped(h)
             THEN BossPass(list, i + 1, LevelFailed(c2), y, wave, dt, out)
           ELSE BossPass(list, i + 1, c2, y, wave, dt, Append(out, h))

\* a NaN coordinate fails every comparison: never off screen, never a hit
ProjectileOffScreen(p) ==
  /\ ~p.nan
  /\ \/ p.x < (camera + worldSpeed) - Margin
     \/ p.x > (camera + worldSpeed) + CanvasWidth + Margin

\* state.projectiles.filter: advance, drop when off screen, collide
RECURSIVE ProjectilePass(_, _, _, _, _)
ProjectilePass(list, i, c, y, out) ==
  IF i > Len(list) THEN [list |-> out, c |-> c]
  ELSE LET p == [list[i] EXCEPT !.x = @ + list[i].speedX, !.y = @ + list[i].speedY]
       IN  IF ProjectileOffScreen(p)
             THEN ProjectilePass(list, i + 1, c, y, out)
           ELSE IF ~p.nan /\ checkCollision(y, p) /\ Vulnerable(c)
             THEN ProjectilePass(list, i + 1, LoseLife(c), y, AfterHit(out, p, "projectile"))
           ELSE ProjectilePass(list, i + 1, c, y, Append(out, p))

(***************************************************************************)
(* The inputs of a frame that the component draws itself: the kinds that   *)
(* Math.random picks, the sign of the Date.now() wave of the bouncing and  *)
(* bobbing entities, and the milliseconds since the previous frame.        *)
(***************************************************************************)
ObstacleDraw == {"calculator"}
EnemyDraw == {"paperball"}
Waves == {0 - 1, 0, 1}
FrameMs == {16}

(***************************************************************************)
(* gameLoop: one run of the animation-frame callback.  ot and et are the   *)
(* kinds drawn for an obstacle and an enemy spawned in this frame.         *)
(***************************************************************************)
FrameContext(p) ==
  [invulnerable |-> p.invulnerable, velocityY |-> p.velocityY,
   lives |-> lives, over |-> FALSE, set |-> "none",
   shots |-> <<>>, defeated |-> 0, bonus |-> 0, stomped |-> <<>>]

\* the frame callback is pending, and the frame budget allows it
FrameEnabled ==
  /\ rafPending
  /\ effectsPending => staleFrames < MaxStaleFrames
  /\ horizon # 0

ScrolledHalf(d) == d + worldSpeed \div 2

\* state.levelDistance += state.worldSpeed
Scrolled(d) == d + worldSpeed

SpawnsBossAgain(lvl, spawned) == LevelType(lvl) = "boss"

\* currentLevel.type === 'boss' && !state.bossSpawned
SpawnsBoss(lvl, spawned) == LevelType(lvl) = "boss" /\ ~spawned

LevelDoneAtLength(lvl, distance) == LevelType(lvl) = "normal" /\ distance >= LevelLength

\* the distance rule that ends a normal level
LevelDone(lvl, distance) == LevelType(lvl) = "normal" /\ distance > LevelLength

\* everything one run of the callback computes from the state it starts in
FrameOutcome(up, ot, et, wave, dt) ==
  LET lvl == loopLevel
      cam == camera + worldSpeed
      distance == Scrolled(levelDistance)
      p == PencilStep(pencil, up)
      normal == LevelType(lvl) = "normal"
      spawnObstacle == normal /\ distance > nextObstacle
      spawnEnemy == normal /\ distance > nextEnemy
      obs0 == IF spawnObstacle
                THEN Append(obstacles, createObstacle(cam + CanvasWidth, ot))
                ELSE obstacles
      ens0 == IF spawnEnemy
                THEN Append(enemies, createEnemy(cam + CanvasWidth, et, lvl))
                ELSE enemies
      spawnBoss == SpawnsBoss(lvl, bossSpawned)
      bos0 == IF spawnBoss THEN Append(bosses, createBoss(BossOf(lvl))) ELSE bosses
      base == [camera |-> cam, levelDistance |-> distance,
               nextObstacle |-> IF spawnObstacle THEN distance + ObstaclePeriod(lvl)
                                ELSE nextObstacle,
               nextEnemy |-> IF spawnEnemy THEN distance + EnemyPeriod(lvl) ELSE nextEnemy]
  IN  IF LevelDone(lvl, distance)
        THEN \* setGameState('levelComplete'); return
             base @@ [returned |-> TRUE, pencil |-> p, obstacles |-> obs0, enemies |-> ens0,
                      bosses |-> bosses, projectiles |-> projectiles,
                      bossSpawned |-> bossSpawned, lives |-> lives,
                      bossDefeated |-> bossDefeated, score |-> score,
                      gameState |-> "levelComplete", stomped |-> <<>>]
        ELSE LET ro == ObstaclePass(obs0, 1, FrameContext(p), p.y, <<>>)
                 re == EnemyPass(ens0, 1, ro.c, p.y, wave, <<>>)
                 rb == BossPass(bos0, 1, re.c, p.y, wave, dt, <<>>)
                 rp == ProjectilePass(projectiles \o rb.c.shots, 1, rb.c, p.y, <<>>)
                 c == rp.c
             IN  base @@ [returned |-> FALSE,
                          pencil |-> [p EXCEPT !.invulnerable = c.invulnerable,
                                               !.velocityY = c.velocityY],
                          obstacles |-> ro.list, enemies |-> re.list,
                          bosses |-> rb.list, projectiles |-> rp.list,
                          bossSpawned |-> (bossSpawned \/ spawnBoss),
                          lives |-> c.lives,
                          bossDefeated |-> bossDefeated + c.defeated,
                          score |-> score + c.bonus + 1,
                          gameState |-> IF c.over THEN "gameOver"
                                        ELSE IF c.set # "none" THEN c.set ELSE gameState,
                          stomped |-> c.stomped]

requestAnimationFrameOnce(returned) == FALSE

\* animationRef.current = requestAnimationFrame(gameLoop), the last line of
\* the callback: not reached by the early return
requestAnimationFrame(returned) == ~returned

gameLoop(up, ot, et, wave, dt) ==
  /\ FrameEnabled
  /\ \E r \in {FrameOutcome(up, ot, et, wave, dt)} :
       /\ camera' = r.camera
       /\ levelDistance' = r.levelDistance
       /\ nextObstacle' = r.nextObstacle
       /\ nextEnemy' = r.nextEnemy
       /\ pencil' = r.pencil
       /\ obstacles' = r.obstacles
       /\ enemies' = r.enemies
       /\ bosses' = r.bosses
       /\ projectiles' = r.projectiles
       /\ bossSpawned' = r.bossSpawned
       /\ lives' = r.lives
       /\ bossDefeated' = r.bossDefeated
       /\ score' = r.score
       /\ gameState' = r.gameState
       /\ stomped' = r.stomped
       /\ rafPending' = requestAnimationFrame(r.returned)
       /\ effectsPending' = (effectsPending \/ gameState # r.gameState)
  /\ horizon' = IF horizon > 0 THEN horizon - 1 ELSE horizon
  /\ staleFrames' = IF effectsPending THEN staleFrames + 1 ELSE staleFrames
  /\ UNCHANGED <<level, worldSpeed, loopLevel, timerPending>>
  /\ UNCHANGED others

\* the wave is read only by bouncing rulers and by bosses
WavesRead ==
  IF \/ LevelType(loopLevel) = "boss"
     \/ "bouncingRuler" \in EnemyDraw
     \/ \E i \in 1..Len(enemies) : enemies[i].type = "bouncingRuler"
    THEN Waves ELSE {0}

\* up is keys.current.up as the frame reads it
Frame == \E up \in BOOLEAN, ot \in ObstacleDraw, et \in EnemyDraw,
            wave \in WavesRead, dt \in FrameMs :
           gameLoop(up, ot, et, wave, dt)

(***************************************************************************)
(* The other handlers.                                                     *)
(***************************************************************************)
StartPencilShielded ==
  [y |-> StartY, velocityY |-> 0, onGround |-> FALSE, invulnerable |-> InvulnerableTicks]

\* state.pencil as startGame sets it
StartPencil ==
  [y |-> StartY, velocityY |-> 0, onGround |-> FALSE, invulnerable |-> 0]

\* the START / Try Again / Play Again button
startGame ==
  /\ gameState \in {"menu", "gameOver", "victory"}
  /\ ~effectsPending
  /\ gameState' = "playing"
  /\ score' = 0
  /\ lives' = StartLives
  /\ level' = 1
  /\ bossDefeated' = 0
  /\ pencil' = StartPencil
  /\ camera' = 0
  /\ worldSpeed' = StartSpeed
  /\ obstacles' = <<>>
  /\ enemies' = <<>>
  /\ bosses' = <<>>
  /\ projectiles' = <<>>
  /\ nextObstacle' = 0
  /\ nextEnemy' = 0
  /\ bossSpawned' = FALSE
  /\ levelDistance' = 0
  /\ effectsPending' = TRUE
  /\ UNCHANGED <<rafPending, loopLevel, timerPending, staleFrames, horizon, stomped>>
  /\ UNCHANGED others

IsLastLevelAtFirstBoss(l) == l >= 5

\* level >= levels.length
IsLastLevel(l) == l >= NumLevels

LevelStartKeepsObstacles ==
  [obstacles |-> obstacles, enemies |-> <<>>, bosses |-> <<>>, projectiles |-> <<>>,
   nextObstacle |-> 0, nextEnemy |-> 0, bossSpawned |-> FALSE, levelDistance |-> 0]

\* the per-level fields of gameStateRef.current as nextLevel resets them
LevelStart ==
  [obstacles |-> <<>>, enemies |-> <<>>, bosses |-> <<>>, projectiles |-> <<>>,
   nextObstacle |-> 0, nextEnemy |-> 0, bossSpawned |-> FALSE, levelDistance |-> 0]

SpeedAfterEntered(l) == Min(StartSpeed + (l + 1) * 20, MaxSpeed)

\* Math.min(3 + level * 0.2, 8)
SpeedAfter(l) == Min(StartSpeed + l * 20, MaxSpeed)

\* the 2000 ms timer of the level-complete effect fires
nextLevel ==
  /\ timerPending
  /\ timerPending' = FALSE
  /\ effectsPending' = TRUE
  /\ IF IsLastLevel(level)
       THEN /\ gameState' = "victory"
            /\ UNCHANGED <<score, lives, level, bossDefeated>>
            /\ UNCHANGED refVars
       ELSE /\ level' = level + 1
            /\ score' = score + LevelBonus
            /\ obstacles' = LevelStart.obstacles
            /\ enemies' = LevelStart.enemies
            /\ bosses' = LevelStart.bosses
            /\ projectiles' = LevelStart.projectiles
            /\ nextObstacle' = LevelStart.nextObstacle
            /\ nextEnemy' = LevelStart.nextEnemy
            /\ bossSpawned' = LevelStart.bossSpawned
            /\ levelDistance' = LevelStart.levelDistance
            /\ worldSpeed' = SpeedAfter(level)
            /\ gameState' = "playing"
            /\ UNCHANGED <<lives, bossDefeated, pencil, camera>>
  /\ UNCHANGED <<rafPending, loopLevel, staleFrames, horizon, stomped>>
  /\ UNCHANGED others

\* React runs the passive effects of the render that followed a change of
\* gameState or level: the cleanup of the game-loop effect cancels the
\* pending frame, the effect requests a new one when playing, and the
\* level-complete effect arms its timer
EffectFlush ==
  /\ effectsPending
  /\ effectsPending' = FALSE
  /\ rafPending' = (gameState = "playing")
  /\ loopLevel' = level
  /\ timerPending' = (gameState = "levelComplete")
  /\ staleFrames' = 0
  /\ UNCHANGED reactVars
  /\ UNCHANGED refVars
  /\ UNCHANGED <<horizon, stomped>>
  /\ UNCHANGED others

(***************************************************************************)
(* The 4-level game of src/unnamed/part_000.  Its state is all React       *)
(* state, held here in the record escape; the game loop is an interval     *)
(* callback that reads the values of the last render (player,              *)
(* levelObjects, homeworkProjectiles) and queues updaters, which React     *)
(* applies in the order queued.  The keys and the outcome of               *)
(* Math.random() < 0.02 are inputs of each tick.  The effect that loads    *)
(* the objects of a level runs with the render that changes currentLevel   *)
(* and is part of the step that changes it.                                *)
(***************************************************************************)
\* ticks of the interval that a behaviour may run
EscapeTicks == 4

PlayerWidth == 30 * U
PlayerHeight == 8 * U
PlayerStartX == 100 * U
PlayerFloor == 350 * U
PlayerStep == 4 * U
PlayerJump == 0 - 12 * U
PlayerGravity == 80
WorldRight == 1200 * U
FinishLine == 1000 * U
HomeworkEdge == 0 - 50 * U

Obj(x, y, w, h, t) ==
  [x |-> x * U, y |-> y * U, width |-> w * U, height |-> h * U, vx |-> 0, type |-> t]

\* vx in 1/U pixel per tick
Ball(x, y, vx) ==
  [x |-> x * U, y |-> y * U, width |-> 20 * U, height |-> 20 * U, vx |-> vx,
   type |-> "paperball"]

LEVELS ==
  << [obstacles |-> <<Obj(300, 350, 40, 40, "eraser"), Obj(500, 320, 60, 20, "ruler"),
                      Obj(700, 340, 50, 50, "scissors")>>,
      enemies |-> <<>>,
      boss |-> <<>>],
     [obstacles |-> <<Obj(250, 330, 40, 40, "eraser"), Obj(400, 310, 60, 20, "ruler"),
                      Obj(550, 340, 50, 50, "scissors"), Obj(750, 320, 30, 30, "stapler")>>,
      enemies |-> <<Ball(600, 300, 0 - 100)>>,
      boss |-> <<>>],
     [obstacles |-> <<Obj(200, 340, 40, 40, "eraser"), Obj(350, 300, 60, 20, "ruler"),
                      Obj(500, 330, 50, 50, "scissors"), Obj(650, 310, 30, 30, "stapler"),
                      Obj(800, 340, 35, 35, "sharpener")>>,
      enemies |-> <<Ball(450, 280, 0 - 150), Ball(700, 290, 0 - 100)>>,
      boss |-> <<>>],
     [obstacles |-> <<Obj(300, 330, 50, 50, "scissors"), Obj(500, 320, 30, 30, "stapler")>>,
      enemies |-> <<Ball(400, 270, 0 - 200), Ball(600, 285, 0 - 150)>>,
      boss |-> <<Obj(700, 200, 80, 120, "teacher")>>] >>

\* currentLevel counts from 0
LevelObjectsOf(i) == LEVELS[i + 1].obstacles \o LEVELS[i + 1].enemies \o LEVELS[i + 1].boss

StartPlayer == [x |-> PlayerStartX, y |-> PlayerFloor, vy |-> 0, onGround |-> TRUE]

\* checkCollision(playerRect, objRect)
Overlaps(p, o) ==
  /\ p.x < o.x + o.width
  /\ p.x + PlayerWidth > o.x
  /\ p.y < o.y + o.height
  /\ p.y + PlayerHeight > o.y

Lethal(o) == o.type \in {"scissors", "stapler", "paperball"}

\* the setPlayer updater of the tick
PlayerPhysics(p, left, right, up) ==
  LET x1 == p.x - (IF left THEN PlayerStep ELSE 0) + (IF right THEN PlayerStep ELSE 0)
      jumps == up /\ p.onGround
      vy1 == (IF jumps THEN PlayerJump ELSE p.vy) + PlayerGravity
      y1 == p.y + vy1
      lands == y1 >= PlayerFloor
  IN  [x |-> Max0(Min(x1, WorldRight)),
       y |-> IF lands THEN PlayerFloor ELSE y1,
       vy |-> IF lands THEN 0 ELSE vy1,
       onGround |-> IF lands THEN TRUE ELSE (p.onGround /\ ~jumps)]

MovedObject(o) == IF o.type = "paperball" THEN [o EXCEPT !.x = @ + o.vx] ELSE o

Homework(boss) ==
  [x |-> boss.x, y |-> boss.y + 60 * U, width |-> 15 * U, height |-> 20 * U,
   vx |-> 0 - 6 * U, type |-> "homework"]

\* prev.map(hw => ({...hw, x: hw.x + vx})).filter(hw => hw.x > -50)
MovedHomework(list) ==
  SelectSeq([i \in 1..Len(list) |-> [list[i] EXCEPT !.x = @ + list[i].vx]],
            LAMBDA hw : hw.x > HomeworkEdge)

\* the number of setLives(prev => prev - 1) that one tick queues: one for
\* every lethal object and one for every homework sheet on the player
HitsOf(p, objects, sheets) ==
  Cardinality({i \in 1..Len(objects) : Lethal(objects[i]) /\ Overlaps(p, objects[i])})
  + Cardinality({i \in 1..Len(sheets) : Overlaps(p, sheets[i])})

\* the interval callback.  The updater that removes the sheet that hit
\* compares the objects of the last render with the copies that the map of
\* the same tick has made, so it removes nothing.
gameLoopEscape(left, right, up, shoots) ==
  /\ escape.gameState = "playing"
  /\ escape.ticks > 0
  /\ LET p0 == escape.player
         objects == escape.levelObjects
         sheets == escape.homeworkProjectiles
         moved == PlayerPhysics(p0, left, right, up)
         bossAt == {i \in 1..Len(objects) : objects[i].type = "teacher"}
         fired == IF LEVELS[escape.currentLevel + 1].boss # <<>> /\ bossAt # {} /\ shoots
                    THEN <<Homework(objects[CHOOSE i \in bossAt : TRUE])>> ELSE <<>>
         objectHit == \E i \in 1..Len(objects) : Lethal(objects[i]) /\ Overlaps(p0, objects[i])
         hits == HitsOf(p0, objects, sheets)
         newLives == escape.lives - hits
         over == hits > 0 /\ newLives <= 0
         finished == p0.x > FinishLine
         advances == finished /\ escape.currentLevel < Len(LEVELS) - 1
     IN  escape' =
           [gameState |-> IF over THEN "gameOver"
                          ELSE IF advances THEN "levelComplete"
                          ELSE IF finished THEN "victory"
                          ELSE "playing",
            currentLevel |-> IF advances THEN escape.currentLevel + 1 ELSE escape.currentLevel,
            score |-> IF advances THEN escape.score + LevelBonus ELSE escape.score,
            lives |-> newLives,
            player |-> IF advances THEN StartPlayer
                       ELSE IF objectHit THEN [moved EXCEPT !.x = PlayerStartX, !.y = PlayerFloor]
                       ELSE moved,
            camera |-> Max0(p0.x - 400 * U),
            levelObjects |-> IF advances THEN LevelObjectsOf(escape.currentLevel + 1)
                             ELSE [i \in 1..Len(objects) |-> MovedObject(objects[i])],
            homeworkProjectiles |-> IF advances THEN <<>> ELSE MovedHomework(sheets \o fired),
            ticks |-> escape.ticks - 1]
  /\ UNCHANGED <<app, gameState, score, lives, level, bossDefeated, pencil, camera,
                 worldSpeed, obstacles, enemies, bosses, projectiles, nextObstacle,
                 nextEnemy, bossSpawned, levelDistance, rafPending, loopLevel,
                 timerPending, effectsPending, staleFrames, horizon, stomped>>

EscapeTick == \E left, right, up, shoots \in BOOLEAN : gameLoopEscape(left, right, up, shoots)

\* Start Adventure / Play Again / Try Again; the level effect runs only when
\* currentLevel changes
startGameEscape ==
  /\ escape.gameState \in {"menu", "victory", "gameOver"}
  /\ escape' = [escape EXCEPT
       !.gameState = "playing", !.currentLevel = 0, !.score = 0, !.lives = StartLives,
       !.player = StartPlayer, !.camera = 0,
       !.levelObjects = IF escape.currentLevel # 0 THEN LevelObjectsOf(0) ELSE @,
       !.homeworkProjectiles = IF escape.currentLevel # 0 THEN <<>> ELSE @]
  /\ UNCHANGED <<app, gameState, score, lives, level, bossDefeated, pencil, camera,
                 worldSpeed, obstacles, enemies, bosses, projectiles, nextObstacle,
                 nextEnemy, bossSpawned, levelDistance, rafPending, loopLevel,
                 timerPending, effectsPending, staleFrames, horizon, stomped>>

\* the Next Level button of the level-complete card
nextLevelEscape ==
  /\ escape.gameState = "levelComplete"
  /\ escape' = [escape EXCEPT !.gameState = "playing", !.player = StartPlayer, !.camera = 0]
  /\ UNCHANGED <<app, gameState, score, lives, level, bossDefeated, pencil, camera,
                 worldSpeed, obstacles, enemies, bosses, projectiles, nextObstacle,
                 nextEnemy, bossSpawned, levelDistance, rafPending, loopLevel,
                 timerPending, effectsPending, staleFrames, horizon, stomped>>

\* the component after its first render
EscapeMenu ==
  [gameState |-> "menu", currentLevel |-> 0, score |-> 0, lives |-> StartLives,
   player |-> StartPlayer, camera |-> 0, levelObjects |-> LevelObjectsOf(0),
   homeworkProjectiles |-> <<>>, ticks |-> EscapeTicks]

(***************************************************************************)
(* The shell of src/src/App.tsx: the menu and completed cards, and the     *)
(* callbacks it hands to the game it renders while playing.  The final     *)
(* score and the time that the game reports are inputs.                    *)
(***************************************************************************)
MaxFinalScore == 9
MaxTime == 8

NoTime == 0 - 1

AppMenu == [gameState |-> "menu", currentLevel |-> 1, score |-> 0, bestTime |-> NoTime]

\* onClick={startGame}: rendered in the menu card and in the completed card
startGameApp(a) ==
  IF a.gameState \in {"menu", "completed"}
    THEN {[a EXCEPT !.gameState = "playing", !.score = 0]}
    ELSE {}

\* onClick={resetGame}: rendered in the completed card
resetGame(a) ==
  IF a.gameState = "completed"
    THEN {[a EXCEPT !.gameState = "menu", !.currentLevel = 1, !.score = 0]}
    ELSE {}

\* onComplete of the game, which is rendered only while playing;
\* !bestTime is true for null and for 0
onGameComplete(a) ==
  IF a.gameState = "playing"
    THEN {[a EXCEPT !.score = finalScore,
                    !.bestTime = IF a.bestTime = NoTime \/ a.bestTime = 0 \/ time < a.bestTime
                                   THEN time ELSE @,
                    !.gameState = "completed"] :
            finalScore \in 0..MaxFinalScore, time \in 0..MaxTime}
    ELSE {}

\* onPause of the game: the pause button of the playing screen
onPause(a) ==
  IF a.gameState = "playing" THEN {[a EXCEPT !.gameState = "paused"]} ELSE {}

AppStays ==
  UNCHANGED <<escape, gameState, score, lives, level, bossDefeated, pencil, camera,
              worldSpeed, obstacles, enemies, bosses, projectiles, nextObstacle,
              nextEnemy, bossSpawned, levelDistance, rafPending, loopLevel,
              timerPending, effectsPending, staleFrames, horizon, stomped>>

AppStartGame == app' \in startGameApp(app) /\ AppStays
AppResetGame == app' \in resetGame(app) /\ AppStays
AppGameComplete == app' \in onGameComplete(app) /\ AppStays
AppPause == app' \in onPause(app) /\ AppStays

(***************************************************************************)
(* The runner after its first render: the menu.                            *)
(***************************************************************************)
RunnerMenu ==
  /\ gameState = "menu"
  /\ score = 0
  /\ lives = StartLives
  /\ level = 1
  /\ bossDefeated = 0
  /\ pencil = StartPencil
  /\ camera = 0
  /\ worldSpeed = StartSpeed
  /\ obstacles = <<>>
  /\ enemies = <<>>
  /\ bosses = <<>>
  /\ projectiles = <<>>
  /\ nextObstacle = 0
  /\ nextEnemy = 0
  /\ bossSpawned = FALSE
  /\ levelDistance = 0
  /\ rafPending = FALSE
  /\ loopLevel = 1
  /\ timerPending = FALSE
  /\ effectsPending = FALSE
  /\ staleFrames = 0
  /\ horizon = 0 - 1
  /\ stomped = <<>>

Init ==
  /\ RunnerMenu
  /\ escape = EscapeMenu
  /\ app = AppMenu

Next ==
  \/ startGame
  \/ Frame
  \/ nextLevel
  \/ EffectFlush

Spec == Init /\ [][Next]_vars

\* a step of Frame seen from outside: the callback is due and the camera
\* advances.  Within Next it is enabled exactly when Frame is and it is taken
\* exactly by the steps of Frame.
FrameTick == FrameEnabled /\ camera' = camera + worldSpeed

\* the browser runs every requested animation frame and every armed timer,
\* and React flushes the passive effects of every render; the player is
\* not obliged to press START
FairSpec ==
  /\ Init /\ [][Next]_vars
  /\ WF_camera(FrameTick)
  /\ WF_vars(nextLevel)
  /\ WF_vars(EffectFlush)

(***************************************************************************)
(* The frame callback from every state of a bounded set of states of the   *)
(* mutable bag.  The set is a superset of what a run from startGame puts   *)
(* in front of the callback: it places hazards and the boss on the pencil, *)
(* so that every branch of the collision passes is taken.                  *)
(***************************************************************************)
ArenaLevels == {4, 5, 10, NumLevels}
ArenaInvulnerable == {0, 1, 2, InvulnerableTicks}

ArenaPencils ==
  { [y |-> Floor, velocityY |-> 0, onGround |-> TRUE],
    [y |-> 360 * U, velocityY |-> 0, onGround |-> FALSE],
    [y |-> 195 * U, velocityY |-> 3 * U, onGround |-> FALSE],
    [y |-> 250 * U, velocityY |-> 0 - 5 * U, onGround |-> FALSE],
    \* one frame above the firing point of the teacher
    [y |-> 250 * U - Gravity, velocityY |-> 0, onGround |-> FALSE],
    \* rising, one frame below the top of the canvas
    [y |-> 3 * U, velocityY |-> 0 - 5 * U, onGround |-> FALSE] }

ArenaObstacles == { <<>>, <<createObstacle(110 * U, "calculator")>> }

ArenaEnemies(l) ==
  { <<>>,
    <<createEnemy(120 * U, "paperball", l)>>,
    <<createEnemy(120 * U, "paperball", l), createEnemy(125 * U, "paperball", l)>> }

\* the distance into a normal level: at its start, or one frame before its end
ArenaDistances(speed) == {0, LevelLength - speed + 1}

\* the smallest health a boss can be left with by stomps, and its full health
ArenaHealths(b) == {b.maxHealth, ((b.maxHealth - 1) % StompDamage) + 1}

\* on the pencil, one frame from the trailing edge of the camera, or one
\* frame from the pencil's own x
ArenaBossXs(speed) == {90 * U, 0 - 175 * U, PencilX + speed \div 2}

\* milliseconds since the last shot, two frames before the cooldown is over
ArenaCoolingDown == Cooldown - 16

ArenaBosses(l) ==
  {<<>>} \cup
  { <<[createBoss(BossOf(l)) EXCEPT !.x = x, !.health = h, !.sinceShot = t]>> :
      x \in ArenaBossXs(SpeedAfter(l - 1)), h \in ArenaHealths(createBoss(BossOf(l))),
      t \in {0, ArenaCoolingDown, Cooldown + 1} }

ArenaShot(y, t) ==
  [x |-> 110 * U, y |-> y - 2 * U, width |-> ProjectileWidth(t),
   height |-> ProjectileHeight(t), speedX |-> 0 - ProjectileSpeed(t), speedY |-> 0,
   nan |-> FALSE, type |-> t]

\* a shot that reaches the pencil on the second frame
ArenaNearShot(y, t) == [ArenaShot(y, t) EXCEPT !.x = 146 * U]

ArenaProjectiles(y, t) ==
  { <<>>, <<ArenaShot(y, t)>>, <<ArenaShot(y, t), ArenaShot(y, t)>>,
    <<ArenaNearShot(y, t)>> }

ArenaInit ==
  /\ gameState = "playing"
  /\ score = 0
  /\ bossDefeated = 0
  /\ level \in ArenaLevels
  /\ lives \in 1..StartLives
  /\ \E q \in ArenaPencils, k \in ArenaInvulnerable :
       pencil = [y |-> q.y, velocityY |-> q.velocityY, onGround |-> q.onGround,
                 invulnerable |-> k]
  /\ camera = 0
  /\ worldSpeed = SpeedAfter(level - 1)
  /\ nextObstacle = LevelLength
  /\ nextEnemy = LevelLength
  /\ IF LevelType(level) = "normal"
       THEN /\ obstacles \in ArenaObstacles
            /\ enemies \in ArenaEnemies(level)
            /\ bosses = <<>>
            /\ projectiles = <<>>
            /\ bossSpawned = FALSE
            /\ levelDistance \in ArenaDistances(worldSpeed)
       ELSE /\ obstacles = <<>>
            /\ enemies = <<>>
            /\ bosses \in ArenaBosses(level)
            /\ bossSpawned = (bosses # <<>>)
            /\ projectiles \in
                 IF bosses = <<>> THEN {<<>>}
                 ELSE ArenaProjectiles(pencil.y, bosses[1].pattern)
            \* a boss fight that has lasted as long as a normal level
            /\ levelDistance = LevelLength - worldSpeed + 1
  /\ rafPending = TRUE
  /\ loopLevel = level
  /\ timerPending = FALSE
  /\ effectsPending = FALSE
  /\ staleFrames = 0
  /\ horizon = ArenaFrames
  /\ stomped = <<>>
  /\ escape = EscapeMenu
  /\ app = AppMenu
  \* the pencil under the top of the canvas and the boss that is cooling
  \* down are each taken with one state of the rest
  /\ pencil.y = 3 * U =>
       /\ level = 4 /\ lives = StartLives /\ pencil.invulnerable = 0
       /\ obstacles = <<>> /\ enemies = <<>> /\ levelDistance = 0
  /\ (bosses # <<>> /\ bosses[1].sinceShot = ArenaCoolingDown) =>
       /\ level = 5 /\ lives = StartLives /\ pencil.invulnerable = 0
       /\ pencil.y = Floor /\ projectiles = <<>>
       /\ bosses[1].x = 90 * U /\ bosses[1].health = bosses[1].maxHealth

ArenaSpec == ArenaInit /\ [][Next]_vars

(***************************************************************************)
(* The 4-level game, from its menu and from states in front of its tick:   *)
(* at the finish line of level 1, and on the boss level as many ticks in   *)
(* as the first homework sheet needs to fly from the teacher to the start  *)
(* column of the player.                                                   *)
(***************************************************************************)
\* ticks of flight from the teacher (x = 700) to x = 130
EscapeFlight == (700 * U - 130 * U) \div (6 * U)

\* the objects of a level after n ticks
Aged(objects, n) ==
  [i \in 1..Len(objects) |->
     IF objects[i].type = "paperball"
       THEN [objects[i] EXCEPT !.x = @ + n * objects[i].vx]
       ELSE objects[i]]

\* the sheet of the first tick, about to reach the player, and the sheet
\* of the second tick behind it
EscapeSheets ==
  { <<>>,
    <<[Homework(LEVELS[4].boss[1]) EXCEPT !.x = 130 * U],
      [Homework(LEVELS[4].boss[1]) EXCEPT !.x = 136 * U]>> }

\* standing at the start, 11 ticks into a jump from there, or standing one
\* step before the scissors
EscapePlayers ==
  { StartPlayer,
    [x |-> PlayerStartX, y |-> 27080, vy |-> 0 - 320, onGround |-> FALSE],
    [StartPlayer EXCEPT !.x = 268 * U] }

EscapeInit ==
  /\ RunnerMenu
  /\ app = AppMenu
  /\ \/ escape = EscapeMenu
     \/ \E n \in 1..StartLives :
          escape = [EscapeMenu EXCEPT !.gameState = "playing", !.lives = n,
                                      !.player = [StartPlayer EXCEPT !.x = FinishLine]]
     \/ \E n \in 1..StartLives, q \in EscapePlayers, sheets \in EscapeSheets :
          escape = [gameState |-> "playing", currentLevel |-> 3, score |-> 3 * LevelBonus,
                    lives |-> n, player |-> q, camera |-> 0,
                    levelObjects |-> Aged(LevelObjectsOf(3), EscapeFlight),
                    homeworkProjectiles |-> sheets, ticks |-> EscapeTicks]

EscapeNext ==
  \/ startGameEscape
  \/ EscapeTick
  \/ nextLevelEscape

EscapeSpec == EscapeInit /\ [][EscapeNext]_vars

(***************************************************************************)
(* The shell, from its menu.                                               *)
(***************************************************************************)
AppInit ==
  /\ RunnerMenu
  /\ escape = EscapeMenu
  /\ app = AppMenu

AppNext ==
  \/ AppStartGame
  \/ AppResetGame
  \/ AppGameComplete
  \/ AppPause

AppSpec == AppInit /\ [][AppNext]_vars

(***************************************************************************)
(* Vocabulary of the properties.                                           *)
(***************************************************************************)
Max(a, b) == IF a > b THEN a ELSE b

\* this step is a run of the frame callback: only it advances the camera
FrameRan == camera' = camera + worldSpeed /\ levelDistance' = levelDistance + worldSpeed

\* this step is startGame: only it enters playing from these three screens
StartGameStep == gameState \in {"menu", "gameOver", "victory"} /\ gameState' = "playing"

LivesReachedZero == lives > 0 /\ lives' = 0

\* a boss left the list in this frame
BossGone == Len(bosses') < Len(bosses) + (IF bossSpawned' /\ ~bossSpawned THEN 1 ELSE 0)

\* a boss left the list in this frame without being defeated
BossEscapedInFrame == FrameRan /\ BossGone /\ bossDefeated' = bossDefeated

(***************************************************************************)
(* C1: between two calls of startGame the lives counter starts at 3, never *)
(* increases, changes only by a decrement of exactly 1, and is never       *)
(* negative.                                                               *)
(***************************************************************************)
C1_LivesOnlyDecrease ==
  [][ IF StartGameStep
        THEN lives' = StartLives
        ELSE (lives' = lives \/ lives' = lives - 1) /\ lives' >= 0 ]_vars

\* a frame has just taken a life from a runner that had three
C1_LifeLost ==
  /\ horizon = ArenaFrames - 1
  /\ pencil.invulnerable = InvulnerableTicks
  /\ lives = StartLives - 1

C3_Invulnerability ==
  [][ FrameRan =>
        /\ pencil'.invulnerable \in 0..InvulnerableTicks
        /\ pencil.invulnerable > 1 => lives' = lives
        /\ lives' # lives => pencil'.invulnerable = InvulnerableTicks
        /\ lives' = lives => pencil'.invulnerable = Max(pencil.invulnerable - 1, 0) ]_vars

\* a frame has run with an obstacle on the invulnerable runner
C3_HitWhileInvulnerable ==
  /\ horizon = ArenaFrames - 1
  /\ pencil.invulnerable = InvulnerableTicks - 1
  /\ \E i \in 1..Len(obstacles) : checkCollision(pencil.y, obstacles[i])

(***************************************************************************)
(* The hazards of the current state that lie on the runner once the frame  *)
(* has advanced them, the runner being at the height the frame leaves it.  *)
(***************************************************************************)
AdvancedObstacle(o) == [o EXCEPT !.x = @ - worldSpeed]

AdvancedEnemy(e, wave) ==
  [e EXCEPT !.x = @ - worldSpeed + e.direction * e.speed,
            !.y = IF e.type = "bouncingRuler" THEN @ + wave * 2 * U ELSE @]

AdvancedProjectile(q) == [q EXCEPT !.x = @ + q.speedX, !.y = @ + q.speedY]

HazardsOnRunner ==
  Cardinality({i \in 1..Len(obstacles) :
                 checkCollision(pencil'.y, AdvancedObstacle(obstacles[i]))})
  + Cardinality({i \in 1..Len(enemies) :
                 \A wave \in Waves : checkCollision(pencil'.y, AdvancedEnemy(enemies[i], wave))})
  + Cardinality({i \in 1..Len(projectiles) :
                 ~projectiles[i].nan
                 /\ checkCollision(pencil'.y, AdvancedProjectile(projectiles[i]))})

DefeatingStomp == FrameRan /\ stomped' # <<>> /\ stomped'[1] <= 0

BossBefore == IF bosses # <<>> THEN bosses[1] ELSE createBoss(BossOf(loopLevel))

HasBossInFrame == bosses # <<>> \/ (bossSpawned' /\ ~bossSpawned)

\* the runner, as some key state leaves it, descends vulnerable onto b
StompOn(b) ==
  \E up \in BOOLEAN :
    LET q == PencilStep(pencil, up)
    IN  /\ q.y = pencil'.y
        /\ q.velocityY > 0
        /\ q.invulnerable = 0
        /\ checkCollision(q.y, b)

C6_HealthOnlyByStomp ==
  [][ /\ (FrameRan /\ HasBossInFrame) =>
           /\ stomped' \in {<<>>, <<BossBefore.health - StompDamage>>}
           /\ stomped' # <<>> =>
                \E wave \in Waves :
                  StompOn(BossMoved([BossBefore EXCEPT !.x = @ - worldSpeed \div 2], wave))
           /\ bosses' # <<>> =>
                /\ (stomped' # <<>>) <=> StompOn(bosses'[1])
                /\ bosses'[1].health =
                     BossBefore.health - (IF stomped' # <<>> THEN StompDamage ELSE 0)
      /\ ~FrameRan => (bosses' = bosses \/ bosses' = <<>>) ]_vars

\* a stomp has just taken 10 from a boss at full health, which lives on
C6_Stomped ==
  /\ bosses # <<>>
  /\ stomped = <<bosses[1].health>>
  /\ bosses[1].health = bosses[1].maxHealth - StompDamage
  /\ pencil.velocityY = Bounce

CompletingFrame ==
  FrameRan /\ LevelType(loopLevel) = "normal" /\ LevelDone(loopLevel, levelDistance')

C9_CollisionsBeforeCompletion ==
  [][ CompletingFrame =>
        /\ \A i \in 1..Len(obstacles) :
             \/ AdvancedObstacle(obstacles[i]).x + obstacles[i].width < camera' - Margin
             \/ \E j \in 1..Len(obstacles') : obstacles'[j] = AdvancedObstacle(obstacles[i])
        /\ (pencil.invulnerable <= 1 /\ HazardsOnRunner >= 1) => lives' = lives - 1 ]_vars

(***************************************************************************)
(* C10 (as stated): once a frame has set gameState to gameOver or          *)
(* levelComplete, no frame runs until gameState is playing again.          *)
(***************************************************************************)
SimulationUnchanged ==
  UNCHANGED <<pencil, camera, levelDistance, obstacles, enemies, bosses, projectiles,
              score, lives>>

C10_NoFrameAfterPhaseLeft ==
  [][ (gameState = "gameOver" \/ gameState = "levelComplete") =>
        (~FrameRan /\ (gameState' = "playing" \/ SimulationUnchanged)) ]_vars

(***************************************************************************)
(* Steps of the other handlers, told apart by what only they do.           *)
(***************************************************************************)
\* a run of the frame callback, told by the camera alone
CameraAdvanced == camera' = camera + worldSpeed

\* the level timer fires: nextLevel runs
NextLevelStep == timerPending /\ ~timerPending'

\* nextLevel takes its advance branch
AdvanceStep == NextLevelStep /\ level' # level

(***************************************************************************)
(* C11: while gameState is playing on a normal level, every frame adds     *)
(* worldSpeed to levelDistance, which therefore never decreases; startGame *)
(* and the advance of nextLevel set it to 0, no frame is pending at that   *)
(* moment, and nothing but a frame changes it afterwards, so the first     *)
(* frame of the new level starts from 0.                                   *)
(***************************************************************************)
C11_LevelDistance ==
  [][ /\ (CameraAdvanced /\ gameState = "playing" /\ LevelType(loopLevel) = "normal")
           => (levelDistance' = levelDistance + worldSpeed /\ levelDistance' > levelDistance)
      /\ (StartGameStep \/ AdvanceStep) => (levelDistance' = 0 /\ ~rafPending')
      /\ (~CameraAdvanced /\ ~StartGameStep /\ ~AdvanceStep)
           => levelDistance' = levelDistance ]_vars

\* the first frame of level 2 has run: the distance is one worldSpeed
C11_FirstFrameOfLevelTwo ==
  /\ gameState = "playing"
  /\ level = 2
  /\ loopLevel = 2
  /\ levelDistance = SpeedAfter(1)

(***************************************************************************)
(* C12: startGame, from the menu, from gameOver or from victory and        *)
(* whatever the run before it left behind, gives score 0, lives 3, level   *)
(* 1, levelDistance 0, camera 0, worldSpeed 3, invulnerable 0, empty       *)
(* entity lists and gameState playing.                                     *)
(***************************************************************************)
C12_StartGameResets ==
  [][ StartGameStep =>
        /\ score' = 0
        /\ lives' = StartLives
        /\ level' = 1
        /\ levelDistance' = 0
        /\ camera' = 0
        /\ worldSpeed' = StartSpeed
        /\ pencil'.invulnerable = 0
        /\ obstacles' = <<>>
        /\ enemies' = <<>>
        /\ bosses' = <<>>
        /\ projectiles' = <<>>
        /\ gameState' = "playing" ]_vars

\* startGame has just run on the screen (victory or gameOver) that ended a
\* run on the last level
C12_RestartedAfterLastLevel ==
  /\ gameState = "playing"
  /\ effectsPending
  /\ loopLevel = NumLevels
  /\ level = 1
  /\ bossDefeated = 0
  /\ score = 0

(***************************************************************************)
(* C13: the level, and the level the frame callback closed over, are       *)
(* always within 1..20; nextLevel on level 20 sets gameState to victory    *)
(* and leaves the level alone, and on any other level it advances by one,  *)
(* never beyond the table.                                                 *)
(***************************************************************************)
C13_LevelInTable ==
  /\ [](level \in 1..NumLevels /\ loopLevel \in 1..NumLevels)
  /\ [][ NextLevelStep =>
           IF level = NumLevels
             THEN gameState' = "victory" /\ level' = level
             ELSE gameState' = "playing" /\ level' = level + 1
                  /\ level' <= NumLevels ]_vars

\* nextLevel has run after the last level
C13_Victory ==
  /\ gameState = "victory"
  /\ level = NumLevels

(***************************************************************************)
(* C14 (as stated): victory can be reached from a new game.  The browser   *)
(* runs every frame and timer, so a new game in which the runner is never  *)
(* hit goes on until the last level is complete: it reaches victory.       *)
(***************************************************************************)
C14_NewGameReachesVictory ==
  (gameState = "playing" /\ level = 1 /\ levelDistance = 0)
    ~> (gameState = "victory" \/ lives < StartLives)

\* what holds instead, whatever the keys: no state of a run from the menu
\* shows victory, a level beyond 5, a lost life or a defeated boss
C14_NoRunGoesBeyondLevelFive ==
  /\ gameState # "victory"
  /\ level <= 5
  /\ lives = StartLives
  /\ bossDefeated = 0

(***************************************************************************)
(* C15 (as stated): an obstacle is static in world space.  Over a frame    *)
(* every obstacle of the list keeps its world x, so that its x relative to *)
(* the camera decreases by exactly worldSpeed, unless it has fallen behind *)
(* the trailing edge and is dropped.                                       *)
(***************************************************************************)
ScreenX(e, cam) == e.x - cam

C15_ObstacleStaticInWorld ==
  [][ (CameraAdvanced /\ gameState = "playing") =>
        \A i \in 1..Len(obstacles) :
          \/ obstacles[i].x + obstacles[i].width < camera' - Margin
          \/ \E j \in 1..Len(obstacles') :
               /\ obstacles'[j].type = obstacles[i].type
               /\ obstacles'[j].x = obstacles[i].x
               /\ ScreenX(obstacles'[j], camera') = ScreenX(obstacles[i], camera) - worldSpeed ]_vars

(***************************************************************************)
(* C16: a frame that starts with the runner on the floor (y = 392,         *)
(* onGround) and the jump key down sets velocityY to -12 before gravity,   *)
(* so that it ends with velocityY = -12 + 0.6, onGround false and y above  *)
(* the floor; the frame after it, whatever the key, ends with the runner   *)
(* higher still.                                                           *)
(***************************************************************************)
\* a run of the frame callback that reads the jump key down
JumpFrame ==
  \E ot \in ObstacleDraw, et \in EnemyDraw, wave \in Waves, dt \in FrameMs :
    gameLoop(TRUE, ot, et, wave, dt)

\* the runner as the frame of the jump leaves it
JustJumped ==
  /\ pencil.y = Floor + JumpImpulse + Gravity
  /\ pencil.velocityY = JumpImpulse + Gravity
  /\ ~pencil.onGround

C16_JumpFromFloor ==
  [][ /\ (pencil.y = Floor /\ pencil.onGround /\ JumpFrame) =>
           /\ pencil'.velocityY = JumpImpulse + Gravity
           /\ ~pencil'.onGround
           /\ pencil'.y = Floor + JumpImpulse + Gravity
           /\ pencil'.y < Floor
      /\ (JustJumped /\ CameraAdvanced) =>
           /\ pencil'.y < pencil.y
           /\ pencil'.y < Floor
           /\ ~pencil'.onGround ]_vars

\* the second frame of a jump from the floor has run
C16_SecondFrameOfJump ==
  /\ pencil.velocityY = JumpImpulse + 2 * Gravity
  /\ pencil.y = Floor + 2 * JumpImpulse + 3 * Gravity
  /\ ~pencil.onGround

BossAfterMove(wave) == BossMoved([BossBefore EXCEPT !.x = @ - worldSpeed \div 2], wave)

BehindCamera(b) == b.x + b.width < camera' - Margin

BossDefeatedInFrame == bossDefeated' > bossDefeated

C18_BossLevelExits ==
  [][ (CameraAdvanced /\ LevelType(loopLevel) = "boss") =>
        /\ (/\ HasBossInFrame
            /\ ~BossDefeatedInFrame
            /\ \A wave \in Waves : BehindCamera(BossAfterMove(wave)))
             => (bosses' = <<>> /\ gameState' = "gameOver")
        /\ (HasBossInFrame /\ Len(bosses') = 0 /\ ~BossDefeatedInFrame)
             => \E wave \in Waves : BehindCamera(BossAfterMove(wave))
        /\ (gameState = "playing" /\ gameState' # "playing") =>
             \/ BossDefeatedInFrame /\ gameState' \in {"levelComplete", "gameOver"}
             \/ BossEscapedInFrame /\ gameState' = "gameOver"
             \/ LivesReachedZero /\ gameState' = "gameOver"
        /\ gameState' = "levelComplete" => (BossDefeatedInFrame \/ gameState = "levelComplete") ]_vars

\* a boss has just escaped, levelDistance being beyond the length of a
\* normal level: gameOver with lives left
C18_BossEscaped ==
  /\ horizon = ArenaFrames - 1
  /\ levelDistance > LevelLength
  /\ LevelType(loopLevel) = "boss"
  /\ gameState = "gameOver"
  /\ lives > 0
  /\ bossSpawned
  /\ bosses = <<>>
  /\ bossDefeated = 0

(***************************************************************************)
(* C19 (as stated): the frame that creates the boss of a boss level leaves *)
(* it in the list, inside the viewport of the camera, and does not fail    *)
(* the level by the escape rule.                                           *)
(***************************************************************************)
BossCreatedInFrame == CameraAdvanced /\ bossSpawned' /\ ~bossSpawned

InViewport(b, cam) == b.x + b.width >= cam /\ b.x <= cam + CanvasWidth

C19_BossSpawnsInView ==
  [][ BossCreatedInFrame =>
        /\ bosses' # <<>>
        /\ InViewport(bosses'[1], camera')
        /\ gameState' # "gameOver" ]_vars

(***************************************************************************)
(* C20: the boss list never holds more than one boss and is empty on every *)
(* normal level; a boss joins the list only in a frame of a boss level     *)
(* that has not spawned its boss yet, which then marks the boss spawned;   *)
(* the mark is cleared only by startGame and by the advance of nextLevel,  *)
(* so a boss that was removed is not created again in the same level.      *)
(***************************************************************************)
C20_OneBossPerBossLevel ==
  /\ [](/\ Len(bosses) <= 1
        /\ LevelType(level) = "normal" => bosses = <<>>
        /\ bosses # <<>> => bossSpawned)
  /\ [][ /\ (bosses = <<>> /\ bosses' # <<>>) =>
              (CameraAdvanced /\ LevelType(loopLevel) = "boss" /\ ~bossSpawned /\ bossSpawned'
               /\ bosses'[1].maxHealth = createBoss(BossOf(loopLevel)).maxHealth)
         /\ (CameraAdvanced /\ LevelType(loopLevel) = "boss" /\ ~bossSpawned) => bossSpawned'
         /\ (bossSpawned /\ ~bossSpawned') => (StartGameStep \/ AdvanceStep)
         /\ (bossSpawned /\ bosses = <<>> /\ bossSpawned') => bosses' = <<>> ]_vars

\* the boss of level 5, created by the first frame after level 4, two frames on
C20_BossCreatedOnEntry ==
  /\ level = 5
  /\ loopLevel = 5
  /\ gameState = "playing"
  /\ levelDistance = 3 * worldSpeed
  /\ Len(bosses) = 1
  /\ bosses[1].x = BossStartX - 3 * (worldSpeed \div 2)

(***************************************************************************)
(* C21: a frame of a normal level in play ends in levelComplete exactly    *)
(* when it brings levelDistance above 2000, so the level completes on the  *)
(* first such frame and on no earlier one, and a frame that leaves the     *)
(* level in playing leaves levelDistance <= 2000.                          *)
(***************************************************************************)
C21_CompletesBeyondLength ==
  [][ (CameraAdvanced /\ gameState = "playing" /\ LevelType(loopLevel) = "normal") =>
        /\ (gameState' = "levelComplete") <=> (levelDistance' > LevelLength)
        /\ gameState' = "levelComplete" => levelDistance <= LevelLength
        /\ gameState' = "playing" => levelDistance' <= LevelLength ]_vars

\* level 2 is complete: its frame 625 left levelDistance at 2000 exactly
\* and the level in play, its frame 626 completed it
C21_LevelTwoComplete ==
  /\ gameState = "levelComplete"
  /\ level = 2
  /\ levelDistance = LevelLength + worldSpeed

PerLevelUnchanged ==
  UNCHANGED <<obstacles, enemies, bosses, projectiles, nextObstacle, nextEnemy,
              bossSpawned, levelDistance>>

C23_AdvanceResetsLevelState ==
  [][ /\ AdvanceStep =>
           /\ obstacles' = <<>> /\ enemies' = <<>>
           /\ bosses' = <<>> /\ projectiles' = <<>>
           /\ levelDistance' = 0 /\ nextObstacle' = 0 /\ nextEnemy' = 0
           /\ ~bossSpawned'
           /\ ~rafPending'
      /\ NextLevelStep => lives' = lives
      /\ (~CameraAdvanced /\ ~AdvanceStep /\ ~StartGameStep) => PerLevelUnchanged ]_vars

\* nextLevel has just advanced from level 4, with one life left
C23_AdvancedToLevelFive ==
  /\ gameState = "playing"
  /\ level = 5
  /\ loopLevel = 4
  /\ effectsPending
  /\ lives = 1
  /\ obstacles = <<>>
  /\ levelDistance = 0

(***************************************************************************)
(* The spawn conditions of a frame of a normal level, and the periods      *)
(* obstacleFreq / difficulty and enemyFreq / difficulty in 1/U pixel.      *)
(***************************************************************************)
NormalFrame == CameraAdvanced /\ LevelType(loopLevel) = "normal"

ObstacleDue == NormalFrame /\ levelDistance' > nextObstacle

EnemyDue == NormalFrame /\ levelDistance' > nextEnemy

FreqOverDifficulty(freq, l) == (freq * U * 10) \div Difficulty10(l)

(***************************************************************************)
(* C24 (as stated): a spawn raises nextObstacle by exactly obstacleFreq /  *)
(* difficulty over its previous value, and nextEnemy by enemyFreq /        *)
(* difficulty.                                                             *)
(***************************************************************************)
C24_ThresholdAddsPeriod ==
  [][ /\ ObstacleDue =>
           nextObstacle' = nextObstacle + FreqOverDifficulty(ObstacleFreq(loopLevel), loopLevel)
      /\ EnemyDue =>
           nextEnemy' = nextEnemy + FreqOverDifficulty(EnemyFreq(loopLevel), loopLevel) ]_vars

(***************************************************************************)
(* C24 (amended): a spawn sets nextObstacle to the levelDistance of that   *)
(* frame plus obstacleFreq / difficulty (nextEnemy: plus enemyFreq /       *)
(* difficulty), which is more than the previous threshold plus the period  *)
(* and at most one worldSpeed more; a frame that spawns nothing leaves the *)
(* threshold alone.                                                        *)
(***************************************************************************)
C24_ThresholdFromDistance ==
  [][ NormalFrame =>
        /\ IF ObstacleDue
             THEN /\ nextObstacle' =
                       levelDistance' + FreqOverDifficulty(ObstacleFreq(loopLevel), loopLevel)
                  /\ nextObstacle' - nextObstacle
                       > FreqOverDifficulty(ObstacleFreq(loopLevel), loopLevel)
                  /\ nextObstacle' - nextObstacle
                       <= FreqOverDifficulty(ObstacleFreq(loopLevel), loopLevel) + worldSpeed
             ELSE nextObstacle' = nextObstacle
        /\ IF EnemyDue
             THEN /\ nextEnemy' =
                       levelDistance' + FreqOverDifficulty(EnemyFreq(loopLevel), loopLevel)
                  /\ nextEnemy' - nextEnemy
                       > FreqOverDifficulty(EnemyFreq(loopLevel), loopLevel)
                  /\ nextEnemy' - nextEnemy
                       <= FreqOverDifficulty(EnemyFreq(loopLevel), loopLevel) + worldSpeed
             ELSE nextEnemy' = nextEnemy ]_vars

\* the second obstacle of level 2 has been spawned: the threshold is ahead
\* of twice the period
C24_SecondSpawnOfLevelTwo ==
  /\ level = 2
  /\ loopLevel = 2
  /\ gameState = "playing"
  /\ nextObstacle > 2 * FreqOverDifficulty(ObstacleFreq(2), 2)
  /\ nextObstacle < 3 * FreqOverDifficulty(ObstacleFreq(2), 2)
  /\ levelDistance + FreqOverDifficulty(ObstacleFreq(2), 2) = nextObstacle

(***************************************************************************)
(* C25: obstacles and enemies are spawned only on normal levels, at most   *)
(* one of each per frame, at x = camera.x + 800; the frame that spawns an  *)
(* entity leaves it at the end of its list, at most its own per-frame      *)
(* advance left of camera.x + 800, and clear of the runner's rectangle.    *)
(***************************************************************************)
Last(list) == list[Len(list)]

\* the x at which the frame that created e leaves it: that frame has
\* advanced it once, unless it ended the level before the passes
SpawnedAt(e, advance) ==
  IF LevelDone(loopLevel, levelDistance')
    THEN e.x = camera' + CanvasWidth
    ELSE e.x = camera' + CanvasWidth - advance

C25_SpawnOffTheRightEdge ==
  [][ CameraAdvanced =>
        /\ Len(obstacles') <= Len(obstacles) + 1
        /\ Len(enemies') <= Len(enemies) + 1
        /\ Len(obstacles') > Len(obstacles) => ObstacleDue
        /\ Len(enemies') > Len(enemies) => EnemyDue
        /\ LevelType(loopLevel) = "boss" => (obstacles' = <<>> /\ enemies' = <<>>)
        /\ ObstacleDue =>
             /\ obstacles' # <<>>
             /\ SpawnedAt(Last(obstacles'), worldSpeed)
             /\ ~checkCollision(pencil'.y, Last(obstacles'))
             /\ Last(obstacles').x > PencilX + PencilWidth
        /\ EnemyDue =>
             /\ enemies' # <<>>
             /\ SpawnedAt(Last(enemies'), worldSpeed + Last(enemies').speed)
             /\ ~checkCollision(pencil'.y, Last(enemies'))
             /\ Last(enemies').x > PencilX + PencilWidth ]_vars

\* the first frame of a game has spawned an obstacle and an enemy
C25_FirstSpawns ==
  /\ level = 1
  /\ levelDistance = StartSpeed
  /\ Len(obstacles) = 1
  /\ Len(enemies) = 1
  /\ obstacles[1].x = CanvasWidth
  /\ enemies[1].x = CanvasWidth - enemies[1].speed

(***************************************************************************)
(* The hazards a frame consumes: those of the lists it starts with that    *)
(* are still in view once advanced, less those it leaves in the lists.     *)
(***************************************************************************)
\* a frame that runs its entity passes
PassFrame == CameraAdvanced /\ ~LevelDone(loopLevel, levelDistance')

ObstaclesInView ==
  Cardinality({i \in 1..Len(obstacles) :
                 ~(AdvancedObstacle(obstacles[i]).x + obstacles[i].width < camera' - Margin)})

EnemiesInView ==
  Cardinality({i \in 1..Len(enemies) :
                 ~(AdvancedEnemy(enemies[i], 0).x + enemies[i].width < camera' - Margin)})

ProjectilesInView ==
  Cardinality({i \in 1..Len(projectiles) :
                 \/ projectiles[i].nan
                 \/ /\ AdvancedProjectile(projectiles[i]).x >= camera' - Margin
                    /\ AdvancedProjectile(projectiles[i]).x <= camera' + CanvasWidth + Margin})

EnemiesConsumed == EnemiesInView + (IF EnemyDue THEN 1 ELSE 0) - Len(enemies')

ProjectilesConsumed == ProjectilesInView - Len(projectiles')

\* no boss of this frame has its cooldown elapsed
NoShotDue ==
  ~HasBossInFrame \/ \A dt \in FrameMs : BossBefore.sinceShot + dt <= Cooldown

ObstacleOnRunner ==
  \E i \in 1..Len(obstacles) : checkCollision(pencil'.y, AdvancedObstacle(obstacles[i]))

EnemyOnRunner ==
  \E i \in 1..Len(enemies), wave \in Waves :
    checkCollision(pencil'.y, AdvancedEnemy(enemies[i], wave))

ProjectileOnRunner ==
  \E i \in 1..Len(projectiles) :
    ~projectiles[i].nan /\ checkCollision(pencil'.y, AdvancedProjectile(projectiles[i]))

(***************************************************************************)
(* C26: a frame keeps every obstacle that is still in view, also the one   *)
(* that cost a life; a life lost to an enemy or a projectile removes       *)
(* exactly that one hazard from its list, which was on the runner; and a   *)
(* frame that starts with invulnerable > 1, or that takes no life, removes *)
(* no hazard by collision.                                                 *)
(***************************************************************************)
C26_HitConsumesEnemyOrProjectile ==
  [][ PassFrame =>
        /\ Len(obstacles') = ObstaclesInView + (IF ObstacleDue THEN 1 ELSE 0)
        /\ EnemiesConsumed =
             (IF lives' < lives /\ ~ObstacleOnRunner /\ EnemyOnRunner THEN 1 ELSE 0)
        /\ NoShotDue =>
             ProjectilesConsumed =
               (IF lives' < lives /\ ~ObstacleOnRunner /\ ~EnemyOnRunner THEN 1 ELSE 0)
        /\ ProjectilesConsumed >= 1 => ProjectileOnRunner
        /\ pencil.invulnerable > 1 =>
             (EnemiesConsumed = 0 /\ (NoShotDue => ProjectilesConsumed = 0)) ]_vars

\* a frame has taken a life with one of two enemies: that one is gone and
\* the other, still on the runner, is in the list
C26_EnemyConsumed ==
  /\ horizon = ArenaFrames - 1
  /\ pencil.invulnerable = InvulnerableTicks
  /\ obstacles = <<>>
  /\ Len(enemies) = 1
  /\ checkCollision(pencil.y, enemies[1])

(***************************************************************************)
(* C27 (as stated): after every frame each projectile of the list lies in  *)
(* the band camera.x - 100 <= x <= camera.x + 900; a projectile with an    *)
(* undefined x is in no band.                                              *)
(***************************************************************************)
InBand(q) == q.x >= camera - Margin /\ q.x <= camera + CanvasWidth + Margin

C27_DefinedProjectilesInBand ==
  \A i \in 1..Len(projectiles) : projectiles[i].nan \/ InBand(projectiles[i])

(***************************************************************************)
(* C28: after every frame the pencil's y lies in [0, 392]; a frame that    *)
(* leaves it on the floor leaves velocityY = 0 and onGround true; a frame  *)
(* whose gravity step would take it above the top of the canvas leaves it  *)
(* at y = 0 with velocityY = 0.                                            *)
(***************************************************************************)
C28_PencilWithinCanvas ==
  /\ [](pencil.y >= 0 /\ pencil.y <= Floor)
  /\ [][ CameraAdvanced =>
           /\ pencil'.y = Floor => (pencil'.velocityY = 0 /\ pencil'.onGround)
           /\ (~pencil.onGround /\ pencil.y + pencil.velocityY + Gravity >= Floor) =>
                pencil'.y = Floor
           /\ pencil.y + pencil.velocityY + Gravity < 0 =>
                (pencil'.y = 0 /\ pencil'.velocityY = 0) ]_vars

\* a frame has just stopped the rising pencil at the top of the canvas
C28_StoppedAtTop ==
  /\ horizon = ArenaFrames - 1
  /\ pencil.y = 0
  /\ pencil.velocityY = 0
  /\ ~pencil.onGround

(***************************************************************************)
(* C29: between frames onGround implies y = 392 and velocityY = 0; a frame *)
(* gives the pencil an upward impulse (a velocity below what gravity alone *)
(* leaves) only as a jump, in a frame that starts with onGround true, or   *)
(* as the bounce of a stomp; both leave onGround false.                    *)
(***************************************************************************)
UpwardImpulse ==
  /\ CameraAdvanced
  /\ pencil'.velocityY < pencil.velocityY + Gravity
  /\ pencil'.velocityY # 0

C29_JumpOnlyFromGround ==
  /\ [](pencil.onGround => (pencil.y = Floor /\ pencil.velocityY = 0))
  /\ [][ UpwardImpulse =>
           \/ /\ pencil.onGround
              /\ pencil'.velocityY = JumpImpulse + Gravity
              /\ ~pencil'.onGround
           \/ /\ ~pencil.onGround
              /\ stomped' # <<>>
              /\ pencil'.velocityY = Bounce
              /\ ~pencil'.onGround ]_vars

\* the first frame has just taken the jump from the floor
C29_JumpedFromGround ==
  /\ horizon = ArenaFrames - 1
  /\ JustJumped

(***************************************************************************)
(* C30: a frame adds at most one projectile to the list, and none unless a *)
(* boss is in the frame with more than 1000 ms on its clock since its last *)
(* shot; a boss that stays in the list has its clock back at 0 exactly     *)
(* when the cooldown had elapsed, and otherwise one frame further on, so   *)
(* two shots of a boss are more than 1000 ms apart.                        *)
(***************************************************************************)
C30_OneShotPerCooldown ==
  [][ CameraAdvanced =>
        /\ Len(projectiles') <= Len(projectiles) + 1
        /\ NoShotDue => Len(projectiles') <= Len(projectiles)
        /\ (HasBossInFrame /\ bosses' # <<>>) =>
             \A dt \in FrameMs :
               bosses'[1].sinceShot =
                 IF BossBefore.sinceShot + dt > Cooldown THEN 0
                 ELSE Min(BossBefore.sinceShot + dt, Cooldown + 1) ]_vars

\* the boss that was 16 ms short of its cooldown has let one frame pass at
\* exactly 1000 ms and has fired in the next
C30_FiredAfterCooldown ==
  /\ horizon = ArenaFrames - 2
  /\ bosses # <<>>
  /\ bosses[1].sinceShot = 0
  /\ bosses[1].x = 90 * U - 2 * (worldSpeed \div 2)
  /\ Len(projectiles) = 1

(***************************************************************************)
(* C31 (as stated): a frame that leaves the vulnerable runner on the body  *)
(* of the boss without a stomp (velocityY <= 0) takes one life and sets    *)
(* invulnerable to 120.                                                    *)
(***************************************************************************)
\* the runner, vulnerable from the start of the frame, ends it on the boss
\* that stays in the list, and the frame has counted no stomp
BossBodyContact ==
  /\ CameraAdvanced
  /\ bosses # <<>>
  /\ bosses' # <<>>
  /\ pencil.invulnerable = 0
  /\ stomped' = <<>>
  /\ pencil'.velocityY <= 0
  /\ checkCollision(pencil'.y, bosses'[1])

ScoreBonuses ==
  (IF AdvanceStep THEN LevelBonus ELSE 0) + (IF BossDefeatedInFrame THEN BossBonus ELSE 0)

C32_ScorePerFinishedFrame ==
  /\ [](score >= 0)
  /\ [][ \/ StartGameStep /\ score' = 0
         \/ score' = score + ScoreBonuses
                     + (IF CameraAdvanced /\ ~LevelDone(loopLevel, levelDistance')
                          THEN 1 ELSE 0) ]_vars

(***************************************************************************)
(* C33: worldSpeed always lies in [3, 8]; startGame sets it to 3; the      *)
(* advance out of level n sets it to min(3 + 0.2 * n, 8), which is not     *)
(* below what it was; no other step changes it.                            *)
(***************************************************************************)
C33_WorldSpeedScales ==
  /\ [](worldSpeed >= 3 * U /\ worldSpeed <= 8 * U)
  /\ [][ /\ StartGameStep => worldSpeed' = 3 * U
         /\ AdvanceStep =>
              /\ worldSpeed' = Min(3 * U + level * (U \div 5), 8 * U)
              /\ worldSpeed' >= worldSpeed
         /\ (~StartGameStep /\ ~AdvanceStep) => worldSpeed' = worldSpeed ]_vars

\* level 10 has been completed by the defeat of its boss: level 11 runs at 5
C33_EnteredLevelEleven ==
  /\ gameState = "playing"
  /\ level = 11
  /\ worldSpeed = 5 * U
  /\ bossDefeated = 1

(***************************************************************************)
(* C34: no run stays in playing forever: with the browser running every    *)
(* requested frame, whatever the keys, a state with gameState = playing is *)
(* followed by one in which gameState is not playing.                      *)
(***************************************************************************)
C34_PlayingEnds == (gameState = "playing") ~> (gameState # "playing")

\* level 4 has just ended by the distance rule
C34_LevelFourEnded ==
  /\ gameState = "levelComplete"
  /\ level = 4
  /\ levelDistance > LevelLength
  /\ ~rafPending

\* how far the boss is from the escape line behind the camera
BossGap(b, cam) == b.x + b.width - (cam - Margin)

\* from any state of a boss fight, whichever way the boss sways: every
\* frame that keeps the boss brings it nearer to the escape line by more
\* than worldSpeed, so a boss that is not defeated escapes
C34_BossNearsEscape ==
  [][ (CameraAdvanced /\ bosses # <<>> /\ bosses' # <<>>) =>
        BossGap(bosses'[1], camera') < BossGap(bosses[1], camera) - worldSpeed ]_vars

(***************************************************************************)
(* C35 (as stated): the off-screen rule removes an obstacle or an enemy    *)
(* only when it has passed the runner: a hazard that a frame finds behind  *)
(* the trailing edge (x + width < camera.x - 100) has its x no longer to   *)
(* the right of the runner's range [100, 140].                             *)
(***************************************************************************)
OffScreen(e) == e.x + e.width < camera' - Margin

RightOfRunner(e) == e.x > PencilX + PencilWidth

C35_RemovedOnlyPastRunner ==
  [][ PassFrame =>
        /\ \A i \in 1..Len(obstacles) :
             OffScreen(AdvancedObstacle(obstacles[i]))
               => ~RightOfRunner(AdvancedObstacle(obstacles[i]))
        /\ \A i \in 1..Len(enemies), wave \in Waves :
             OffScreen(AdvancedEnemy(enemies[i], wave))
               => ~RightOfRunner(AdvancedEnemy(enemies[i], wave)) ]_vars

\* what holds instead in a run from the menu: no obstacle and no enemy of
\* the list is ever as far left as the runner's range
C35_NoHazardReachesRunner ==
  /\ \A i \in 1..Len(obstacles) : RightOfRunner(obstacles[i])
  /\ \A i \in 1..Len(enemies) : RightOfRunner(enemies[i])

(***************************************************************************)
(* C36 (as stated): in the 4-level game lives is never negative, and a     *)
(* tick takes at most one life, also with several hazards on the player.   *)
(***************************************************************************)
C36_OneLifePerTick ==
  /\ [](escape.lives >= 0)
  /\ [][escape'.lives >= escape.lives - 1]_vars

\* what holds instead: a tick takes one life for every hazard on the player
C36_OneLifePerHazard ==
  [][ escape'.ticks < escape.ticks =>
        escape'.lives = escape.lives
                        - HitsOf(escape.player, escape.levelObjects,
                                 escape.homeworkProjectiles) ]_vars

(***************************************************************************)
(* C37 (as stated): no state of App is a dead end: from every state that   *)
(* App reaches from the menu, some sequence of user actions leads to       *)
(* gameState = playing.                                                    *)
(***************************************************************************)
\* what one user action makes of the state a
AppActions(a) == startGameApp(a) \cup resetGame(a) \cup onGameComplete(a) \cup onPause(a)

\* the states that user actions reach from those of seen; new holds the
\* ones whose successors have not been taken yet
RECURSIVE AppReach(_, _)
AppReach(seen, new) ==
  IF new = {} THEN seen
  ELSE LET next == (UNION {AppActions(a) : a \in new}) \ seen
       IN  AppReach(seen \cup next, next)

C37_PlayingReachable ==
  \E a \in AppReach({app}, {app}) : a.gameState = "playing"

\* what holds instead: paused is the only state without a way to playing
C37_PausedIsTheDeadEnd ==
  app.gameState # "paused" => C37_PlayingReachable

====
